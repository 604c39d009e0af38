------------------------------- MODULE AgentLoop -------------------------------
(***************************************************************************)
(* A coding agent that speaks the Anthropic Messages API and works through *)
(* the gateway, over several turns (src/backend/gateway/translator.py).    *)
(* The agent keeps the conversation and sends all of it each time; the     *)
(* gateway turns it into the OpenAI form, lets the token savers at it,     *)
(* turns it into the form of whichever upstream serves this time, and      *)
(* turns the answer back.  A member of a combo may speak any form, so the  *)
(* turns of one conversation may come from upstreams of different forms.   *)
(*                                                                         *)
(* The agent and the upstreams keep to the API: a stop reason says whether *)
(* tools are called, and all calls of an answer are answered in the next   *)
(* message.  Pieces of content are numbers that occur once; a text that    *)
(* was joined from several is the sequence of them.  What a call or a      *)
(* result holds is left out, and with it the saver that shortens results.  *)
(***************************************************************************)
EXTENDS Integers, FiniteSets, SequencesExt

CONSTANTS
    MaxPieces,  \* bound: pieces of content in a conversation
    MaxMessages,\* bound: messages in a conversation
    Savers      \* the savers that add an instruction, in the order they are applied

ASSUME LoopAssumption ==
    /\ MaxPieces \in Nat \ {0} /\ MaxMessages \in Nat \ {0}
    /\ Savers \in Seq(ToSet(Savers))
    /\ \A i, j \in DOMAIN Savers : Savers[i] = Savers[j] => i = j

VARIABLES
    conv,       \* the conversation as the agent keeps it
    stop,       \* the stop reason of the last answer
    own,        \* the agent's system prompt, as the sentences that matter
    asked,      \* the request an upstream has to answer, Nothing if there is none
    script,     \* history: what user and upstreams said, turn by turn
    pieces

loopVars == <<conv, stop, own, asked, script, pieces>>

Formats     == {"openai", "anthropic", "gemini"}
StopReasons == {"end_turn", "tool_use", "max_tokens", "stop"}
Nothing     == [format |-> "none", system |-> << >>, msgs |-> << >>]

Text(s)   == [kind |-> "text", of |-> s]
Call(n)   == [kind |-> "call", of |-> <<n>>]
Result(n) == [kind |-> "result", of |-> <<n>>]
Image     == [kind |-> "image", of |-> << >>]

\* What the blocks of one kind hold, one after the other.
Joined(blocks, kind) ==
    FlattenSeq([i \in DOMAIN blocks |-> IF blocks[i].kind = kind THEN blocks[i].of ELSE << >>])

\* The elements of s that are in S, in their order.
Among(s, S) == FlattenSeq([i \in DOMAIN s |-> IF s[i] \in S THEN <<s[i]>> ELSE << >>])

Has(blocks, kind) == \E i \in DOMAIN blocks : blocks[i].kind = kind

LoopTypeOK ==
    /\ \A i \in DOMAIN conv : conv[i].role = IF i % 2 = 1 THEN "user" ELSE "assistant"
    /\ stop \in StopReasons /\ asked.format \in Formats \cup {"none"}
    /\ pieces \in 0 .. MaxPieces

LoopInit ==
    /\ conv = << >> /\ stop = "end_turn" /\ asked = Nothing /\ script = << >> /\ pieces = 0
    /\ own \in {<< >>} \cup {<<s>> : s \in {"own"} \cup ToSet(Savers)}

-----------------------------------------------------------------------------
(* The request on its way out                                              *)

\* A message of the OpenAI form; `to' is the call a tool message answers.
ChatMessage(role, text, calls, to) == [role |-> role, text |-> text, calls |-> calls, to |-> to]

FromAssistant(blocks) ==
    <<ChatMessage("assistant", Joined(blocks, "text"), Joined(blocks, "call"), << >>)>>

FromUser(blocks) ==
    IF Has(blocks, "text") THEN <<ChatMessage("user", Joined(blocks, "text"), << >>, << >>)>>
                           ELSE << >>

ToolMessages(blocks) ==
    LET ids == Joined(blocks, "result")
    IN  [i \in DOMAIN ids |-> ChatMessage("tool", << >>, << >>, <<ids[i]>>)]

\* Defect: the text of the user goes before the results it came with.
ToChat_TextFirst(m) ==
    IF m.role = "assistant" THEN FromAssistant(m.blocks)
                            ELSE FromUser(m.blocks) \o ToolMessages(m.blocks)

\* _anthropic_to_openai_messages: results are passed on as they come, texts are
\* joined and follow them, and images are dropped, with their message if it
\* holds nothing else.
ToChat(m) ==
    IF m.role = "assistant" THEN FromAssistant(m.blocks)
                            ELSE ToolMessages(m.blocks) \o FromUser(m.blocks)

\* apply_token_savers: an instruction joins the system prompt, or becomes it,
\* unless it is there already.
Instructed(system, on) == system \o Among(Savers, on \ ToSet(system))

\* The blocks of a message, text first.
Body(m) ==
    (IF m.text = << >> THEN << >> ELSE <<Text(m.text)>>)
    \o [i \in DOMAIN m.calls |-> Call(m.calls[i])]
    \o [i \in DOMAIN m.to |-> Result(m.to[i])]

\* translate_request: each message in the upstream's form.  Gemini is sent
\* neither calls nor results.
Dressed(format, m) ==
    CASE format = "openai"    -> <<[role |-> m.role, blocks |-> Body(m)]>>
      [] format = "anthropic" ->
            <<[role |-> IF m.role = "tool" THEN "user" ELSE m.role, blocks |-> Body(m)]>>
      [] format = "gemini"    ->
            IF m.role = "tool" THEN << >>
            ELSE <<[role |-> m.role, blocks |-> <<Text(m.text)>>]>>

Outgoing(format) ==
    LET chat == FlattenSeq([i \in DOMAIN conv |-> ToChat(conv[i])])
    IN  FlattenSeq([i \in DOMAIN chat |-> Dressed(format, chat[i])])

-----------------------------------------------------------------------------
(* The answer on its way back                                              *)

\* The names each form has for the end of an answer that is complete, calls
\* tools, was cut at its length, or was withheld.
Reason(format, why) ==
    CASE format = "openai"    -> [done  |-> "stop", tools |-> "tool_calls",
                                  limit |-> "length", filter |-> "content_filter"][why]
      [] format = "anthropic" -> [done  |-> "end_turn", tools |-> "tool_use",
                                  limit |-> "max_tokens", filter |-> "refusal"][why]
      [] format = "gemini"    -> [done  |-> "STOP", tools |-> "STOP",
                                  limit |-> "MAX_TOKENS", filter |-> "SAFETY"][why]

\* _anthropic_stop_reason, _gemini_finish_reason: what is not known is a stop.
Finish(reason) ==
    CASE reason \in {"tool_use", "tool_calls"}               -> "tool_calls"
      [] reason \in {"max_tokens", "MAX_TOKENS", "length"}   -> "length"
      [] reason \in {"SAFETY", "content_filter"}             -> "content_filter"
      [] OTHER                                               -> "stop"

StopReason(finish) ==
    CASE finish = "tool_calls"     -> "tool_use"
      [] finish = "length"         -> "max_tokens"
      [] finish = "content_filter" -> "stop"
      [] OTHER                     -> "end_turn"

\* Defect: of several text blocks only the last one is kept.
AnswerIn_LastText(said) ==
    LET texts == Joined(said, "text")
    IN  ChatMessage("assistant", Among(texts, {Last(texts)}),
                    Joined(said, "call"), << >>)

\* translate_response: all texts are joined and stand before the calls.
AnswerIn(said) == FromAssistant(said)[1]

\* openai_chat_response_to_anthropic_messages: an answer without content gets
\* an empty text.
ToAgent(m) == IF Body(m) = << >> THEN <<Text(<< >>)>> ELSE Body(m)

-----------------------------------------------------------------------------
(* The agent, the gateway and the upstreams                                *)

\* The user's next message: the results of all calls that were made, and a text
\* or an image beside them, in any order.
Write(blocks, texts) ==
    /\ asked = Nothing /\ Len(conv) % 2 = 0 /\ Len(conv) < MaxMessages
    /\ pieces' = pieces + texts /\ pieces' <= MaxPieces
    /\ conv' = Append(conv, [role |-> "user", blocks |-> blocks])
    /\ script' = Append(script, blocks)
    /\ UNCHANGED <<stop, own, asked>>

UserWrites ==
    \E beside \in {"nothing", "text", "image"} :
       LET due    == IF stop = "tool_use" THEN Joined(conv[Len(conv)].blocks, "call") ELSE << >>
           blocks == {Result(due[i]) : i \in DOMAIN due}
                     \cup (CASE beside = "text"  -> {Text(<<pieces + 1>>)}
                            [] beside = "image" -> {Image}
                            [] OTHER            -> {})
       IN  /\ blocks # {}
           /\ \E order \in SetToSeqs(blocks) : Write(order, IF beside = "text" THEN 1 ELSE 0)

\* The conversation is sent, to an upstream of any form, with any savers on.
Send(format, on) ==
    /\ asked = Nothing /\ Len(conv) % 2 = 1
    /\ asked' = [format |-> format, system |-> Instructed(own, on), msgs |-> Outgoing(format)]
    /\ UNCHANGED <<conv, stop, own, script, pieces>>

\* What an upstream may say: OpenAI's form has one text, before the calls, and
\* Gemini is not told of tools.
Shapes(format) ==
    CASE format = "openai"    -> {<< >>, <<"text">>, <<"call">>, <<"text", "call">>,
                                  <<"call", "call">>, <<"text", "call", "call">>}
      [] format = "anthropic" -> UNION {[1 .. n -> {"text", "call"}] : n \in 0 .. 3}
      [] format = "gemini"    -> {<< >>, <<"text">>, <<"text", "text">>}

Answer(shape, why) ==
    LET said == [i \in DOMAIN shape |-> [kind |-> shape[i], of |-> <<pieces + i>>]]
    IN  /\ asked # Nothing /\ shape \in Shapes(asked.format) /\ Len(conv) < MaxMessages
        /\ why = "tools" <=> Has(said, "call")
        /\ pieces' = pieces + Len(shape) /\ pieces' <= MaxPieces
        /\ conv' = Append(conv, [role |-> "assistant", blocks |-> ToAgent(AnswerIn(said))])
        /\ stop' = StopReason(Finish(Reason(asked.format, why)))
        /\ script' = Append(script, said)
        /\ asked' = Nothing
        /\ UNCHANGED own

\* The call fails, and the agent may send the conversation again.
Fail == asked # Nothing /\ asked' = Nothing /\ UNCHANGED <<conv, stop, own, script, pieces>>

LoopNext ==
    \/ UserWrites
    \/ \E f \in Formats : \E on \in SUBSET ToSet(Savers) : Send(f, on)
    \/ \E f \in Formats : \E s \in Shapes(f), w \in {"done", "tools", "limit", "filter"} :
          Answer(s, w)
    \/ Fail

LoopSpec == LoopInit /\ [][LoopNext]_loopVars

-----------------------------------------------------------------------------
(* Properties                                                              *)

\* The pieces in the blocks of some kinds.
Pieces(blocks, kinds) ==
    UNION {{blocks[i].kind} \X ToSet(blocks[i].of) :
              i \in {j \in DOMAIN blocks : blocks[j].kind \in kinds}}

Ids(blocks, kind) == {p[2] : p \in Pieces(blocks, {kind})}

\* An upstream that calls tools is asked on with their results where its API
\* wants them: the messages right after an answer with calls hold one result
\* each, of exactly these calls, and there are no others.  The results may have
\* come in any order, with text before, between or after them, and the calls
\* from an upstream of another form.
ToolsAnswered ==
    LET msgs  == asked.msgs
        calls == [i \in DOMAIN msgs |-> Ids(msgs[i].blocks, "call")]
        given == [i \in DOMAIN msgs |-> Ids(msgs[i].blocks, "result")]
        due   == [i \in DOMAIN msgs |->
                     {j \in DOMAIN msgs : i < j /\ j <= i + Cardinality(calls[i])}]
    IN  asked.format \in {"openai", "anthropic"} =>
           /\ \A i \in DOMAIN msgs :
                 /\ Cardinality(due[i]) = Cardinality(calls[i])
                 /\ UNION {given[j] : j \in due[i]} = calls[i]
           /\ \A j \in DOMAIN msgs : given[j] # {} =>
                 /\ Len(msgs[j].blocks) = 1
                 /\ \E i \in DOMAIN msgs : j \in due[i]

\* Whatever upstreams served before, the one that is asked now is told what user
\* and upstreams said: every text, call and result once, in the order of the
\* turns and, among those of a kind, in the order they were said (Gemini is told
\* the texts), by the right side, under the system prompt with each instruction
\* of a saver once.
TurnsSurvive ==
    LET msgs    == asked.msgs
        kinds   == IF asked.format = "gemini" THEN {"text"} ELSE {"text", "call", "result"}
        said(k) == FlattenSeq([i \in DOMAIN script |-> Joined(script[i], k)])
        told(k) == FlattenSeq([i \in DOMAIN msgs |-> Joined(msgs[i].blocks, k)])
        source  == [t \in DOMAIN script |-> Pieces(script[t], kinds)]
        turns   == [i \in DOMAIN msgs |->
                      LET here == Pieces(msgs[i].blocks, kinds)
                      IN  {t \in DOMAIN script : source[t] \cap here # {}}]
    IN  asked # Nothing =>
           /\ \A k \in kinds : told(k) = said(k)
           /\ \A i \in DOMAIN msgs : \A t \in turns[i] :
                 /\ turns[i] = {t}
                 /\ (msgs[i].role = "assistant") = (t % 2 = 0)
                 /\ \A j \in 1 .. i - 1 : \A u \in turns[j] : u <= t
           /\ \A s \in ToSet(asked.system) :
                 Cardinality({i \in DOMAIN asked.system : asked.system[i] = s}) = 1
=============================================================================
