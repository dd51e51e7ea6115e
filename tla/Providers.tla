------------------------------ MODULE Providers ------------------------------
(* The two wire protocols of the provider modules: what an answer looks like    *)
(* whole and as a stream of events, and what deepseek.c (for every              *)
(* OpenAI-compatible service) and anthropic.c make of it.  A text is the        *)
(* sequence of its tokens, <<>> both for an empty and for a missing one.        *)
EXTENDS Integers, Sequences, SequencesExt

\* A message, or the part of one that an event brings (message_t).
NoUsage == [prompt |-> 0, completion |-> 0]
Message(content, reasoning, calls, usage) ==
  [content |-> content, reasoning |-> reasoning, calls |-> calls, usage |-> usage]
ToolCall(id, name, args) == [id |-> id, name |-> name, args |-> args]

-----------------------------------------------------------------------------
(* What a service sends.  An answer is a message whose calls have ids; kind is  *)
(* "answer", "error" for an error object, "empty" for a body without choices.  *)

Answer(content, reasoning, calls) ==
  [kind |-> "answer", content |-> content, reasoning |-> reasoning, calls |-> calls,
   usage |-> [prompt |-> 7, completion |-> 3]]

\* One event: index is the top-level one of a content block, -1 without.
Event(type, index, btype, text, calls, usage) ==
  [type |-> type, index |-> index, btype |-> btype, text |-> text, calls |-> calls, usage |-> usage]

Each(text, type, index, btype) ==
  [i \in DOMAIN text |-> Event(type, index, btype, <<text[i]>>, <<>>, NoUsage)]

\* OpenAI: a call is opened by an event with its id and name; its arguments
\* follow in pieces that carry only its index.
OpenAiCall(call, i) ==
  LET piece(id, name, args) == Event("chunk", -1, "calls", <<>>,
                                     <<[index |-> i, call |-> ToolCall(id, name, args)]>>, NoUsage)
  IN  <<piece(call.id, call.name, <<>>)>> \o [j \in DOMAIN call.args |-> piece("", "", <<call.args[j]>>)]

OpenAiEvents(a) ==
  Each(a.reasoning, "chunk", -1, "thinking") \o Each(a.content, "chunk", -1, "text")
  \o FlattenSeq([i \in DOMAIN a.calls |-> OpenAiCall(a.calls[i], i - 1)])
  \o << Event("chunk", -1, "none", <<>>, <<>>, a.usage),
        Event("[DONE]", -1, "none", <<>>, <<>>, NoUsage) >>

\* Anthropic: every block of the answer has an index of its own, and is opened,
\* filled and closed.
Block(i, btype, text, call) ==
  <<Event("content_block_start", i, btype, <<>>, call, NoUsage)>>
  \o Each(text, "content_block_delta", i, btype)
  \o <<Event("content_block_stop", i, btype, <<>>, <<>>, NoUsage)>>

AnthropicEvents(a) ==
  <<Event("message_start", -1, "none", <<>>, <<>>, [a.usage EXCEPT !.completion = 0])>>
  \o Block(0, "thinking", a.reasoning, <<>>) \o Block(1, "text", a.content, <<>>)
  \o FlattenSeq([i \in DOMAIN a.calls |->
       Block(i + 1, "tool_use", a.calls[i].args,
             <<[index |-> i + 1, call |-> [a.calls[i] EXCEPT !.args = <<>>]]>>)])
  \o << Event("message_delta", -1, "none", <<>>, <<>>, [a.usage EXCEPT !.prompt = 0]),
        Event("message_stop", -1, "none", <<>>, <<>>, NoUsage) >>

Events(provider, a) == IF provider = "anthropic" THEN AnthropicEvents(a) ELSE OpenAiEvents(a)

-----------------------------------------------------------------------------
(* What the program makes of it; <<>> stands for NULL                           *)

\* The body of an answer; a body that was cut does not parse.
deepseek_parse_response(a, cut) ==
  IF cut \/ a.kind # "answer" THEN <<>>
  ELSE <<Message(a.content, a.reasoning, a.calls, a.usage)>>

\* A body without content is an empty message here.
anthropic_parse_response(a, cut) ==
  IF cut \/ a.kind = "error" THEN <<>>
  ELSE IF a.kind = "empty" THEN <<Message(<<>>, <<>>, <<>>, NoUsage)>>
  ELSE <<Message(a.content, a.reasoning, a.calls, a.usage)>>

parse_response(provider, a, cut) ==
  IF provider = "anthropic" THEN anthropic_parse_response(a, cut)
  ELSE deepseek_parse_response(a, cut)

Calls(e) == [i \in DOMAIN e.calls |-> e.calls[i].call]

deepseek_parse_chunk(e) ==
  IF e.type = "[DONE]" THEN <<>>
  ELSE <<Message(IF e.btype = "text" THEN e.text ELSE <<>>,
                 IF e.btype = "thinking" THEN e.text ELSE <<>>, Calls(e), e.usage)>>

\* A piece of a call's arguments is a call without id and name.
anthropic_parse_chunk(e) ==
  LET block == e.type \in {"content_block_start", "content_block_delta"}
      piece == e.type = "content_block_delta" /\ e.btype = "tool_use"
  IN  <<Message(IF block /\ e.btype = "text" THEN e.text ELSE <<>>,
                IF block /\ e.btype = "thinking" THEN e.text ELSE <<>>,
                IF piece THEN <<ToolCall("", "", e.text)>> ELSE IF block THEN Calls(e) ELSE <<>>,
                IF e.type \in {"message_start", "message_delta"} THEN e.usage ELSE NoUsage)>>

parse_chunk(provider, e) ==
  IF provider = "anthropic" THEN anthropic_parse_chunk(e) ELSE deepseek_parse_chunk(e)

\* The index of the call an event is about, as stream_sse_event digs it out.
raw_tool_index(e) ==
  IF e.index >= 0 THEN e.index ELSE IF e.calls # <<>> THEN e.calls[1].index ELSE -1

-----------------------------------------------------------------------------
(* The merger of stream_sse_event: slots of the calls, filled event by event    *)

Latest(new, old) == IF new = "" THEN old ELSE new

\* Arguments that seem to begin anew replace what was collected.
JoinArgs(old, new) ==
  IF old # <<>> /\ new # <<>> /\ Last(old) = "}" /\ Head(new) = "{" THEN new ELSE old \o new

MergeCall(slots, idx, call, max) ==
  LET mine == {j \in DOMAIN slots : slots[j].index = idx}
  IN  IF mine # {}
        THEN LET j == CHOOSE k \in mine : \A l \in mine : k <= l
                 old == slots[j].call
             IN  [slots EXCEPT ![j].call = ToolCall(Latest(call.id, old.id), Latest(call.name, old.name),
                                                    JoinArgs(old.args, call.args))]
        ELSE IF Len(slots) < max THEN Append(slots, [index |-> idx, call |-> call]) ELSE slots

\* Slip: the index inside the delta is not looked at.
MergeCalls_Slip(slots, delta, raw, max) ==
  LET merged[i \in 0 .. Len(delta.calls)] ==
        IF i = 0 THEN slots ELSE MergeCall(merged[i - 1], i - 1, delta.calls[i], max)
  IN  merged[Len(delta.calls)]

\* A delta with several calls is merged by position, whatever their indices are.
MergeCalls(slots, delta, raw, max) ==
  LET n == Len(delta.calls)
      idx(i) == IF raw >= 0 /\ n = 1 THEN raw ELSE IF n > 1 THEN i - 1 ELSE 0
      merged[i \in 0 .. n] ==
        IF i = 0 THEN slots ELSE MergeCall(merged[i - 1], idx(i), delta.calls[i], max)
  IN  merged[n]

Positive(new, old) == IF new > 0 THEN new ELSE old

NothingYet == [content |-> <<>>, reasoning |-> <<>>, slots |-> <<>>, usage |-> NoUsage]

\* stream_sse_event: one event goes into what was received so far.
Receive(rx, provider, e, max) ==
  LET parsed == parse_chunk(provider, e)
      d == parsed[1]
  IN  IF parsed = <<>> THEN rx
      ELSE [content   |-> rx.content \o d.content,
            reasoning |-> rx.reasoning \o d.reasoning,
            usage     |-> [prompt     |-> Positive(d.usage.prompt, rx.usage.prompt),
                           completion |-> Positive(d.usage.completion, rx.usage.completion)],
            slots     |-> MergeCalls(rx.slots, d, raw_tool_index(e), max)]

\* The message of an accepted stream: calls that never got an id are dropped.
Collected(rx) ==
  LET kept[n \in 0 .. Len(rx.slots)] ==
        IF n = 0 THEN <<>>
        ELSE IF rx.slots[n].call.id # "" THEN Append(kept[n - 1], rx.slots[n].call)
        ELSE kept[n - 1]
  IN  Message(rx.content, rx.reasoning, kept[Len(rx.slots)], rx.usage)

\* What agent_parse_response_body makes of a body that turns out to be a stream:
\* arguments are always joined, the reasoning and the usage are dropped.
MergePiece(slots, idx, call, max) ==
  LET mine == {j \in DOMAIN slots : slots[j].index = idx}
      into(old) == ToolCall(Latest(call.id, old.id), Latest(call.name, old.name), old.args \o call.args)
  IN  IF mine # {} THEN [j \in DOMAIN slots |-> IF j \in mine THEN [slots[j] EXCEPT !.call = into(@)]
                                               ELSE slots[j]]
      ELSE IF Len(slots) < max THEN Append(slots, [index |-> idx, call |-> call]) ELSE slots

MergePieces(slots, delta, raw, max) ==
  LET merged[i \in 0 .. Len(delta.calls)] ==
        IF i = 0 THEN slots
        ELSE MergePiece(merged[i - 1], IF raw >= 0 THEN raw ELSE i - 1, delta.calls[i], max)
  IN  merged[Len(delta.calls)]

ReadEvent(rx, provider, e, max) ==
  LET parsed == parse_chunk(provider, e)
  IN  IF parsed = <<>> THEN rx
      ELSE [rx EXCEPT !.content = @ \o parsed[1].content,
                      !.slots = MergePieces(@, parsed[1], raw_tool_index(e), max)]

agent_parse_response_body(provider, events, max) ==
  LET read[n \in 0 .. Len(events)] ==
        IF n = 0 THEN NothingYet ELSE ReadEvent(read[n - 1], provider, events[n], max)
  IN  Collected(read[Len(events)])
=============================================================================
