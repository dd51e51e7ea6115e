------------------------------- MODULE MCStream -------------------------------
(* Stream for TLC: answers with text, reasoning and up to three calls (one more *)
(* than the merger has slots for), both protocols, every framing, on and off.   *)
EXTENDS Stream

Run(i) == ToolCall(<<"id1", "id2", "id3">>[i], "run", <<"{", "}">>)
Text == Answer(<<"a", "b">>, <<"r">>, <<>>)
TwoCalls == Answer(<<>>, <<>>, <<Run(1), Run(2)>>)
ThreeCalls == Answer(<<"a">>, <<>>, <<Run(1), [Run(2) EXCEPT !.args = <<>>], Run(3)>>)
Error == [Text EXCEPT !.kind = "error"]
Empty == [kind |-> "empty", content |-> <<>>, reasoning |-> <<>>, calls |-> <<>>, usage |-> NoUsage]

Case(p, a, status, f, tls, streaming) ==
  [provider |-> p, answer |-> a, status |-> status, framing |-> f, tls |-> tls, streaming |-> streaming,
   unasked |-> FALSE]
Unasked(a, f) == [Case("openai", a, 200, f, TRUE, FALSE) EXCEPT !.unasked = TRUE]

Protocols == {"openai", "anthropic"}
Framings == {"chunked", "length", "close"}
MCRequests ==
  {Case(p, a, 200, f, TRUE, TRUE) : p \in Protocols, a \in {Text, TwoCalls}, f \in Framings}
  \cup {Case(p, ThreeCalls, 200, "close", TRUE, TRUE) : p \in Protocols}
  \cup {Unasked(a, "close") : a \in {Text, TwoCalls, ThreeCalls}}
  \cup {Case(p, Text, s, f, TRUE, FALSE) : p \in Protocols, s \in {200, 500}, f \in Framings}
  \cup {Case(p, a, 200, "length", TRUE, FALSE) : p \in Protocols, a \in {Error, Empty}}
  \cup {Case("openai", ThreeCalls, 200, "length", TRUE, FALSE),
        Case("openai", Text, 200, "close", FALSE, TRUE), Case("openai", Text, 500, "chunked", TRUE, TRUE)}
MCChunkSizes == {1, 3}
=============================================================================
