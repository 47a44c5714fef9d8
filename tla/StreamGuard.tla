---------------------------- MODULE StreamGuard ----------------------------
(***************************************************************************)
(* The content guard on streamed answers (service/qingyuan/stream_core.go  *)
(* and stream.go) inside the five stream handlers that use it: OpenAI's    *)
(* stream passed on ("openai"), Claude's passed on ("claude"), OpenAI's    *)
(* converted to Claude's ("o2c") and to the Responses protocol ("resp"),   *)
(* and OpenAI's collected into one Responses answer ("collect").           *)
(*                                                                         *)
(* A unit is what the provider sent: n its number, plain and ad the        *)
(* lengths of its ordinary and its advertising text (an advertisement is a *)
(* suffix of the whole answer), inj whether the answer read up to here     *)
(* first holds a phrase the guard blocks.                                  *)
(***************************************************************************)
EXTENDS Integers, Sequences, SequencesExt, FiniteSetsExt

CONSTANTS Policies,    \* guard policies: [on, mode, ads, strip, inj]
          BufferSize,  \* StreamTailBufferSize
          MaxUnits     \* units of one stream

VARIABLES
  setting,   \* protocol and policy of this stream
  core,      \* the TailBufferCore: aggregated units, pending, blocked
  given,     \* every unit the provider sent
  loop,      \* the handler's locals: started, finishReason, at
  shown      \* what was written to the client

vars == <<setting, core, given, loop, shown>>

Protocols == {"openai", "claude", "o2c", "resp", "collect"}
Length(u) == u.plain + u.ad
Total(units) == FoldSeq(LAMBDA u, t : t + Length(u), 0, units)
AdTotal(units) == FoldSeq(LAMBDA u, t : t + u.ad, 0, units)

Protects(p) == p.mode \in {"protect", "strict"}
DelayEnabled(p) == Protects(p) /\ ((p.ads /\ p.strip) \/ p.inj)
IsEnabled(p) == p.on /\ p.mode # "off"
NewTailBufferCore == [aggregated |-> <<>>, pending |-> <<>>, blocked |-> FALSE]

-----------------------------------------------------------------------------
(* The core. *)

(* How many units of the pending ones Feed lets go: until what is left fits *)
(* the buffer or the first one left has no text.                            *)
Ripe(pending) ==
  Min({k \in 0..Len(pending) :
        \/ Total(SubSeq(pending, k + 1, Len(pending))) <= BufferSize
        \/ k < Len(pending) /\ Length(pending[k + 1]) = 0})

shouldBlockStream(units) == \E i \in DOMAIN units : units[i].inj

Feed(c, u, p) ==
  LET seen == [c EXCEPT !.aggregated = Append(@, u)]
      queue == Append(c.pending, u)
      k == Ripe(queue)
  IN  IF c.blocked THEN [core |-> c, out |-> <<>>]
      ELSE IF ~DelayEnabled(p) THEN [core |-> seen, out |-> <<u>>]
      ELSE IF p.inj /\ shouldBlockStream(seen.aggregated)
           THEN [core |-> [seen EXCEPT !.pending = <<>>, !.blocked = TRUE], out |-> <<>>]
      ELSE [core |-> [seen EXCEPT !.pending = SubSeq(queue, k + 1, Len(queue))], out |-> SubSeq(queue, 1, k)]

(* Seeded bug: one unit more than the advertisement is dropped. *)
BugreleaseTail(pending, stripLen) ==
  LET drop == IF stripLen = 0 THEN 0
              ELSE Min({d \in 0..Len(pending) :
                         d = Len(pending) \/ Total(SubSeq(pending, Len(pending) - d + 1, Len(pending))) > stripLen})
  IN  SubSeq(pending, 1, Len(pending) - drop)

(* The pending units but for those at the end that cover stripLen. *)
releaseTail(pending, stripLen) ==
  LET drop == Min({d \in 0..Len(pending) :
                    d = Len(pending) \/ Total(SubSeq(pending, Len(pending) - d + 1, Len(pending))) >= stripLen})
  IN  SubSeq(pending, 1, Len(pending) - drop)

Finalize(c, p) ==
  LET ad == AdTotal(c.aggregated)
  IN  IF Total(c.aggregated) = 0 THEN releaseTail(c.pending, 0)
      ELSE IF c.blocked THEN <<>>
      ELSE IF p.ads /\ ad > 0 /\ DelayEnabled(p) THEN releaseTail(c.pending, ad)
      ELSE releaseTail(c.pending, 0)

(* The check of a whole text: what is left of the advertisement, unless the *)
(* user asked for one or the text is code (skipAdStrip), and whether to     *)
(* block, in whatever mode.                                                 *)
analyzeResponseText(units, p, skipAdStrip) ==
  [blocked |-> p.inj /\ shouldBlockStream(units),
   ad |-> IF p.strip /\ ~skipAdStrip THEN 0 ELSE AdTotal(units)]

-----------------------------------------------------------------------------
(* The handlers.  shown is a sequence of [kind, n, plain, ad, inj]; opening *)
(* and closing stand for the frames a conversion writes around the text.    *)
Frame(kind, ad) == [kind |-> kind, n |-> 0, plain |-> 0, ad |-> ad, inj |-> FALSE]

(* Content of the next unit.  Junk is a line that does not parse. *)
Units(n) ==
  {[kind |-> k, n |-> n, plain |-> 0, ad |-> 0, inj |-> FALSE] : k \in {"empty", "finish", "done", "junk"}}
  \cup {[kind |-> "text", n |-> n, plain |-> t[1], ad |-> t[2], inj |-> i] :
          t \in {<<1, 0>>, <<2, 0>>, <<1, 1>>, <<0, 1>>, <<0, 2>>}, i \in BOOLEAN}
(* An advertisement ends the answer; nothing follows [DONE]. *)
Follows(u) ==
  /\ \A i \in DOMAIN given : given[i].kind # "done"
  /\ AdTotal(given) > 0 => u.plain = 0
  /\ u.inj => ~shouldBlockStream(given) /\ u.ad = 0

Init ==
  /\ \E proto \in Protocols, p \in Policies : setting = [proto |-> proto, policy |-> p]
  /\ core = NewTailBufferCore
  /\ given = <<>>
  /\ loop = [started |-> FALSE, finish |-> FALSE, at |-> "read"]
  /\ shown = <<>>

Processed(u) ==
  IF IsEnabled(setting.policy) THEN Feed(core, u, setting.policy) ELSE [core |-> core, out |-> <<u>>]

(* OpenAI passed on: what does not parse is written at once, blocked or not. *)
streamHandler(u) ==
  /\ setting.proto = "openai"
  /\ LET f == Processed(u)
     IN  IF u.kind = "junk" THEN shown' = Append(shown, u) /\ UNCHANGED core
         ELSE shown' = shown \o f.out /\ core' = f.core
  /\ UNCHANGED loop

(* Claude passed on: every line, with text or without, goes through the core. *)
streamPassthroughClaude(u) ==
  /\ setting.proto = "claude"
  /\ LET f == Processed(u) IN shown' = shown \o f.out /\ core' = f.core
  /\ UNCHANGED loop

(* Converted: the opening frames at the first chunk that parses, and only   *)
(* chunks with text go through the core; [DONE] ends the loop.              *)
Converted(u) ==
  LET opening == IF loop.started \/ u.kind \in {"junk", "done"} THEN <<>> ELSE <<Frame("opening", 0)>>
      f == Processed(u)
  IN  /\ loop' = [started |-> loop.started \/ u.kind \notin {"junk", "done"},
                  finish |-> loop.finish \/ u.kind = "finish",
                  at |-> IF u.kind = "done" THEN "end" ELSE "read"]
      /\ IF u.kind = "text" THEN shown' = shown \o opening \o f.out /\ core' = f.core
         ELSE shown' = shown \o opening /\ UNCHANGED core
streamOpenAI2Claude(u) == setting.proto = "o2c" /\ Converted(u)
streamChatToResponses(u) == setting.proto = "resp" /\ Converted(u)

(* Collected: the text is put together, nothing is written yet. *)
streamToNormalResponses(u) ==
  /\ setting.proto = "collect"
  /\ core' = IF u.kind = "text" THEN [core EXCEPT !.aggregated = Append(@, u)] ELSE core
  /\ loop' = [loop EXCEPT !.at = IF u.kind = "done" THEN "end" ELSE "read"]
  /\ UNCHANGED shown

ReadUnit ==
  /\ loop.at = "read" /\ Len(given) < MaxUnits
  /\ \E u \in Units(Len(given) + 1) :
       /\ Follows(u)
       /\ given' = Append(given, u)
       /\ \/ streamHandler(u) \/ streamPassthroughClaude(u) \/ streamOpenAI2Claude(u) \/ streamChatToResponses(u)
          \/ streamToNormalResponses(u)
  /\ UNCHANGED setting

Held == IF IsEnabled(setting.policy) THEN Finalize(core, setting.policy) ELSE <<>>
Ends(out) ==
  /\ loop.at \in {"read", "end"}
  /\ shown' = shown \o out
  /\ loop' = [loop EXCEPT !.at = "ended"]
  /\ UNCHANGED <<setting, core, given>>

(* The provider's stream is over, or cut. *)
EndPassedOn == setting.proto \in {"openai", "claude"} /\ Ends(Held)

CloseClaude ==
  /\ setting.proto = "o2c"
  /\ Ends(Held \o IF loop.finish /\ ~core.blocked THEN <<Frame("closing", 0)>> ELSE <<>>)

(* The closing frames of the Responses protocol repeat the whole text, as   *)
(* the core read it (nothing when the guard is off).                        *)
CloseResponses ==
  /\ setting.proto = "resp"
  /\ Ends(Held \o IF loop.finish /\ ~core.blocked THEN <<Frame("closing", AdTotal(core.aggregated))>> ELSE <<>>)

Collected ==
  /\ setting.proto = "collect"
  /\ \E skip \in BOOLEAN :
       LET units == core.aggregated
           checked == IF IsEnabled(setting.policy) /\ units # <<>> THEN analyzeResponseText(units, setting.policy, skip)
                      ELSE [blocked |-> FALSE, ad |-> AdTotal(units)]
       IN  Ends(IF checked.blocked THEN <<>> ELSE <<Frame("closing", checked.ad)>>)

Next == ReadUnit \/ EndPassedOn \/ CloseClaude \/ CloseResponses \/ Collected
Spec == Init /\ [][Next]_vars

-----------------------------------------------------------------------------
Policy == setting.policy
Delays == IsEnabled(Policy) /\ DelayEnabled(Policy)
Stops == Delays /\ Policy.inj
Passed == SelectSeq(shown, LAMBDA e : e.kind \notin {"opening", "closing", "junk"})
Carried(u) == u.kind = "text" \/ (setting.proto \in {"openai", "claude"} /\ u.kind # "junk")
Shows(u) == \E i \in DOMAIN Passed : Passed[i].n = u.n
Ended == loop.at = "ended"
Streams == setting.proto # "collect"

TypeOK ==
  /\ setting.proto \in Protocols /\ Policy \in Policies
  /\ core.blocked \in BOOLEAN /\ Total(core.pending) <= 2 * MaxUnits
  /\ loop.at \in {"read", "end", "ended"} /\ Len(given) <= MaxUnits

(* The unit that completes a blocked phrase never reaches the client, nor   *)
(* any text after it, nor the frames that would close the message as if it  *)
(* were whole (Feed looks before it releases; Blocked keeps the closing     *)
(* frames back).                                                            *)
BlockedStaysBlocked ==
  (Stops /\ shouldBlockStream(core.aggregated)) =>
     \A i \in DOMAIN shown :
        /\ shown[i].kind # "closing"
        /\ shown[i].kind = "text" => \E j \in DOMAIN given : given[j].inj /\ shown[i].n < j

(* Units keep their order, and the closing frames come after all of them.   *)
InOrder ==
  /\ \A i, j \in DOMAIN Passed : i < j => Passed[i].n < Passed[j].n
  /\ \A i \in DOMAIN shown : shown[i].kind = "opening" => i = 1
  /\ \A i \in DOMAIN shown : shown[i].kind = "closing" => i = Len(shown) /\ Ended

(* Unless it was blocked, a stream loses no text but units that hold some   *)
(* of the advertisement, and without one it loses no unit at all            *)
(* (releaseTail counts whole units from the end).                           *)
OnlyAdsDropped ==
  (Ended /\ Streams /\ ~core.blocked) =>
     \A i \in DOMAIN given : Carried(given[i]) =>
        \/ Shows(given[i])
        \/ Delays /\ Policy.ads /\ AdTotal(given) > 0 /\ (given[i].ad > 0 \/ Length(given[i]) = 0)

(* An advertisement that, with the plain text of the unit it starts in,     *)
(* fits the buffer never shows in the text of a stream, however the         *)
(* provider cut it into units.                                              *)
AdWithheld ==
  LET first == {i \in DOMAIN given : given[i].ad > 0}
      begins == IF first = {} THEN 0 ELSE given[Min(first)].plain
  IN  (Delays /\ Policy.ads /\ Streams /\ begins + AdTotal(given) <= BufferSize) =>
         \A i \in DOMAIN shown : shown[i].kind = "text" => shown[i].ad = 0

(* Converted streams hold back no more than the buffer. *)
HeldAtMostTail == setting.proto \in {"o2c", "resp"} => Total(core.pending) <= BufferSize

(* What the guard promises of a streamed answer. *)
StreamInv == TypeOK /\ BlockedStaysBlocked /\ InOrder /\ OnlyAdsDropped /\ AdWithheld /\ HeldAtMostTail
=============================================================================
